---- MODULE Spec2Model ----
(***************************************************************************)
(* Model of the Huffman coding utility (src/main.py): Counter, the heapq   *)
(* priority queue of Node objects ordered by Node.__lt__, the merge loop   *)
(* of build_huffman_tree, the code walk of generate_huffman_codes and the  *)
(* statistics of huffman_utility.                                          *)
(*                                                                         *)
(* Node objects live in an arena `nodes`; a node is referred to by its     *)
(* index, NoNode (0) is Python's None.  Every node is pushed exactly once, *)
(* right after it is constructed, so the index of a node is also its       *)
(* arrival number in the priority queue.                                   *)
(* A Python str is a sequence of one-character strings; a code string is a *)
(* sequence over {"0","1"}.  The insertion-ordered dict `frequencies` is a *)
(* sequence of <<char, count>> pairs in first-occurrence order; the dict   *)
(* `codes` is a function from characters to code strings.                  *)
(***************************************************************************)
EXTENDS Integers, Sequences, FiniteSets, TLC

\* ---------------------------------------------------------------- bounds
MaxLen == 5
NumSyms == 3

Alphabet == <<"A", "B", "C", "D", "E", "F">>
Symbols == {Alphabet[n] : n \in 1..NumSyms}

\* gr.Examples of the interface
Example1 == <<"h","e","l","l","o"," ","w","o","r","l","d">>
Example2 == <<"t","h","i","s"," ","i","s"," ","a"," ","t","e","s","t"," ",
              "o","f"," ","t","h","e"," ","h","u","f","f","m","a","n"," ",
              "c","o","d","i","n","g"," ","a","l","g","o","r","i","t","h","m">>
Example3 == <<"A","A","A","A","A","B","B","B","C","C">>
Examples == {Example1, Example2, Example3}

BoundedTexts == UNION {[1..n -> Symbols] : n \in 0..MaxLen}
Inputs == BoundedTexts \cup Examples

\* ------------------------------------------------------------- constants
NoNode == 0
NoChar == "None"
BitsPerChar == 8

VARIABLES
  entry,               \* which function the caller invoked ("none" before)
  pc,                  \* position of the call ("idle" before it)
  text,                \* the argument (input_text / text)
  frequencies,         \* build_huffman_tree: Counter(text)
  nodes,               \* arena of the Node objects constructed so far
  priority_queue,      \* the heapq list (node indices)
  item,                \* position of the for loop over frequencies.items()
  left_child,          \* locals of the merge loop
  right_child,
  root_node,
  codes,               \* generate_huffman_codes: codes dict
  ret,                 \* return value of generate_huffman_codes (<<>> before)
  dataframe_data,      \* the four outputs of huffman_utility
  original_size_out,
  compressed_size_out,
  tree_image_path,
  merges,              \* history: completed iterations of the merge loop
  status               \* "ok", or the exception raised

vars == <<entry, pc, text, frequencies, nodes, priority_queue, item,
          left_child, right_child, root_node, codes, ret, dataframe_data,
          original_size_out, compressed_size_out, tree_image_path, merges,
          status>>

\* ------------------------------------------------------------------ Node
\* variant: the right child is dropped
NodeNoRight(char, freq, left, right) ==
  [char |-> char, freq |-> freq, left |-> left, right |-> NoNode]

Node(char, freq, left, right) ==
  [char |-> char, freq |-> freq, left |-> left, right |-> right]

\* variant: the comparison is reversed
LtReversed(ns, a, b) == ns[a].freq > ns[b].freq

\* Node.__lt__ on the nodes a and b of arena ns
Lt(ns, a, b) == ns[a].freq < ns[b].freq

\* ----------------------------------------------------------------- heapq
\* Positions are 0-based as in heapq; h[p + 1] is heap[p].
RECURSIVE SiftDownLoop(_, _, _, _, _)
SiftDownLoop(ns, h, startpos, pos, newitem) ==
  IF pos > startpos
    THEN LET parentpos == (pos - 1) \div 2
             parent == h[parentpos + 1]
         IN IF Lt(ns, newitem, parent)
              THEN SiftDownLoop(ns, [h EXCEPT ![pos + 1] = parent],
                                startpos, parentpos, newitem)
              ELSE [h EXCEPT ![pos + 1] = newitem]
    ELSE [h EXCEPT ![pos + 1] = newitem]

siftdown(ns, h, startpos, pos) == SiftDownLoop(ns, h, startpos, pos, h[pos + 1])

\* the child heapq moves up: the right one unless the left one is smaller
SmallerChild(ns, h, childpos) ==
  LET rightpos == childpos + 1
  IN IF rightpos < Len(h) /\ ~Lt(ns, h[childpos + 1], h[rightpos + 1])
       THEN rightpos ELSE childpos

RECURSIVE SiftUpLoop(_, _, _, _, _)
SiftUpLoop(ns, h, startpos, pos, newitem) ==
  LET childpos == 2 * pos + 1
  IN IF childpos < Len(h)
       THEN LET c == SmallerChild(ns, h, childpos)
            IN SiftUpLoop(ns, [h EXCEPT ![pos + 1] = h[c + 1]],
                          startpos, c, newitem)
       ELSE siftdown(ns, [h EXCEPT ![pos + 1] = newitem], startpos, pos)

siftup(ns, h, pos) == SiftUpLoop(ns, h, pos, pos, h[pos + 1])

\* variant: the new item is appended and never sifted
heappush_nosift(ns, h, x) == Append(h, x)

heappush(ns, h, x) == siftdown(ns, Append(h, x), 0, Len(h))

\* heappop of a non-empty heap: <<returned item, heap afterwards>>
heappop(ns, h) ==
  LET lastelt == h[Len(h)]
      rest == SubSeq(h, 1, Len(h) - 1)
  IN IF rest # <<>>
       THEN <<h[1], siftup(ns, [rest EXCEPT ![1] = lastelt], 0)>>
       ELSE <<lastelt, rest>>

\* --------------------------------------------------------------- Counter
\* Counter(text): one entry per distinct character, in the order of first
\* occurrence (dict insertion order), with its number of occurrences
FirstOccurrences(t) == {k \in 1..Len(t) : \A j \in 1..(k - 1) : t[j] # t[k]}

Count(t, c) == Cardinality({k \in 1..Len(t) : t[k] = c})

Counter(t) ==
  LET first == FirstOccurrences(t)
      nth(n) == CHOOSE k \in first : Cardinality({j \in first : j < k}) = n - 1
  IN [n \in 1..Cardinality(first) |-> <<t[nth(n)], Count(t, t[nth(n)])>>]

IndexOf(fs, c) ==
  IF \E j \in 1..Len(fs) : fs[j][1] = c
    THEN CHOOSE j \in 1..Len(fs) : fs[j][1] = c
    ELSE 0

Keys(fs) == {fs[j][1] : j \in 1..Len(fs)}
Get(fs, c) == fs[IndexOf(fs, c)][2]

\* ------------------------------------------------------------ codes dict
EmptyDict == [c \in {} |-> <<>>]
Put(d, k, v) == [c \in (DOMAIN d) \cup {k} |-> IF c = k THEN v ELSE d[c]]

\* variant: both descents append "0"
RECURSIVE get_codes_same_bit(_, _, _, _)
get_codes_same_bit(ns, node, current_code, cs) ==
  IF node = NoNode THEN cs
  ELSE IF ns[node].char # NoChar
    THEN IF current_code = <<>>
           THEN Put(cs, ns[node].char, <<"0">>)
           ELSE Put(cs, ns[node].char, current_code)
    ELSE get_codes_same_bit(ns, ns[node].right, Append(current_code, "0"),
           get_codes_same_bit(ns, ns[node].left, Append(current_code, "0"), cs))

\* variant: the right subtree is not visited
RECURSIVE get_codes_left_only(_, _, _, _)
get_codes_left_only(ns, node, current_code, cs) ==
  IF node = NoNode THEN cs
  ELSE IF ns[node].char # NoChar
    THEN IF current_code = <<>>
           THEN Put(cs, ns[node].char, <<"0">>)
           ELSE Put(cs, ns[node].char, current_code)
    ELSE get_codes_left_only(ns, ns[node].left, Append(current_code, "0"), cs)

RECURSIVE get_codes_recursive(_, _, _, _)
get_codes_recursive(ns, node, current_code, cs) ==
  IF node = NoNode THEN cs
  ELSE IF ns[node].char # NoChar
    THEN IF current_code = <<>>
           THEN Put(cs, ns[node].char, <<"0">>)
           ELSE Put(cs, ns[node].char, current_code)
    ELSE get_codes_recursive(ns, ns[node].right, Append(current_code, "1"),
           get_codes_recursive(ns, ns[node].left, Append(current_code, "0"), cs))

\* --------------------------------------------------------- build helpers
\* the parent made for a single-leaf queue
\* variant: the leaf becomes the right child
WrapSingleRight(ns, node) == Node(NoChar, ns[node].freq, NoNode, node)

WrapSingle(ns, node) == Node(NoChar, ns[node].freq, node, NoNode)

\* variant: the right weight is not added
MergedFreqLeft(ns, l, r) == ns[l].freq

MergedFreq(ns, l, r) == ns[l].freq + ns[r].freq

\* variant: the loop stops one merge early
LoopCondTwo(h) == Len(h) > 2

LoopCond(h) == Len(h) > 1

\* ------------------------------------------------------- huffman_utility
\* sorted(frequencies.items(), key=item[1], reverse=True): an item comes
\* after the items of higher count and after the earlier items of equal count
\* (the sort is stable)
SortedRank(fs, j) ==
  Cardinality({i \in 1..Len(fs) :
                 fs[i][2] > fs[j][2] \/ (fs[i][2] = fs[j][2] /\ i < j)}) + 1

SortedFreqs(fs) ==
  [n \in 1..Len(fs) |-> fs[CHOOSE j \in 1..Len(fs) : SortedRank(fs, j) = n]]

\* codes.get(char, default)
CodeGet(cs, c, default) == IF c \in DOMAIN cs THEN cs[c] ELSE default

\* repr(char).strip("'"): every character of Alphabet and of the examples is
\* printable and is not a quote or a backslash, so its display is itself
CharDisplay(c) == c

Rows(fs, cs) ==
  LET sf == SortedFreqs(fs)
  IN [j \in 1..Len(sf) |->
        <<CharDisplay(sf[j][1]), sf[j][2], CodeGet(cs, sf[j][1], <<"N/A">>)>>]

RECURSIVE CompressedFrom(_, _, _, _)
CompressedFrom(fs, cs, k, acc) ==
  IF k > Len(fs) THEN acc
  ELSE CompressedFrom(fs, cs, k + 1,
                      acc + Len(CodeGet(cs, fs[k][1], <<>>)) * fs[k][2])

\* variant: the code length is not multiplied by the frequency
RECURSIVE CompressedNoFreq(_, _, _, _)
CompressedNoFreq(fs, cs, k, acc) ==
  IF k > Len(fs) THEN acc
  ELSE CompressedNoFreq(fs, cs, k + 1, acc + Len(CodeGet(cs, fs[k][1], <<>>)))

CompressedSizeNoFreq(fs, cs) == CompressedNoFreq(fs, cs, 1, 0)

CompressedSizeBits(fs, cs) == CompressedFrom(fs, cs, 1, 0)

NA == [kind |-> "N/A"]

\* ------------------------------------------------------------------ Init
Init ==
  /\ entry = "none"
  /\ text = <<>>
  /\ pc = "idle"
  /\ frequencies = <<>>
  /\ nodes = <<>>
  /\ priority_queue = <<>>
  /\ item = 1
  /\ left_child = NoNode
  /\ right_child = NoNode
  /\ root_node = NoNode
  /\ codes = EmptyDict
  /\ ret = <<>>
  /\ dataframe_data = <<>>
  /\ original_size_out = [kind |-> "unset"]
  /\ compressed_size_out = [kind |-> "unset"]
  /\ tree_image_path = "unset"
  /\ merges = 0
  /\ status = "ok"

buildVars == <<frequencies, nodes, priority_queue, item, left_child,
               right_child, root_node, merges>>
outVars == <<dataframe_data, original_size_out, compressed_size_out,
             tree_image_path>>

\* --------------------------------------------------------------- actions
\* variant: the empty input gets zero statistics instead of the placeholders
UtilityEmptyZero ==
  /\ pc = "idle"
  /\ entry' = "huffman_utility"
  /\ text' = <<>>
  /\ dataframe_data' = <<>>
  /\ original_size_out' = [kind |-> "bits", bits |-> 0, chars |-> 0]
  /\ compressed_size_out' = [kind |-> "bits", bits |-> 0, savings |-> 0,
                             savings_percent |-> <<0, 1>>]
  /\ tree_image_path' = "None"
  /\ pc' = "done"
  /\ UNCHANGED <<codes, ret, status>>
  /\ UNCHANGED buildVars

\* huffman_utility called with the empty text: `if not input_text` returns
\* the four default outputs
UtilityEmpty ==
  /\ pc = "idle"
  /\ entry' = "huffman_utility"
  /\ text' = <<>>
  /\ dataframe_data' = <<>>
  /\ original_size_out' = NA
  /\ compressed_size_out' = NA
  /\ tree_image_path' = "None"
  /\ pc' = "done"
  /\ UNCHANGED <<codes, ret, status>>
  /\ UNCHANGED buildVars

\* huffman_utility called with a non-empty text, or generate_huffman_codes
\* called directly with any text: enter build_huffman_tree
CallBuild ==
  /\ pc = "idle"
  /\ \E e \in {"huffman_utility", "generate_huffman_codes"} : \E t \in Inputs :
       /\ e = "huffman_utility" => t # <<>>
       /\ entry' = e
       /\ text' = t
  /\ pc' = "build"
  /\ UNCHANGED <<codes, ret, status>>
  /\ UNCHANGED buildVars
  /\ UNCHANGED outVars

\* build_huffman_tree: `if not text: return None, {}`
BuildEmpty ==
  /\ pc = "build" /\ text = <<>>
  /\ root_node' = NoNode
  /\ frequencies' = <<>>
  /\ pc' = "gen"
  /\ UNCHANGED <<entry, text, codes, ret, status, nodes, priority_queue, item,
                 left_child, right_child, merges>>
  /\ UNCHANGED outVars

\* frequencies = Counter(text); priority_queue = []
BuildCount ==
  /\ pc = "build" /\ text # <<>>
  /\ frequencies' = Counter(text)
  /\ priority_queue' = <<>>
  /\ item' = 1
  /\ pc' = "push_leaves"
  /\ UNCHANGED <<entry, text, codes, ret, status, nodes, left_child,
                 right_child, root_node, merges>>
  /\ UNCHANGED outVars

\* one iteration of `for char, freq in frequencies.items()`
PushLeaf ==
  /\ pc = "push_leaves" /\ item <= Len(frequencies)
  /\ LET ns == Append(nodes, Node(frequencies[item][1], frequencies[item][2],
                                  NoNode, NoNode))
     IN /\ nodes' = ns
        /\ priority_queue' = heappush(ns, priority_queue, Len(ns))
  /\ item' = item + 1
  /\ pc' = IF item = Len(frequencies) THEN "check_single" ELSE "push_leaves"
  /\ UNCHANGED <<entry, text, codes, ret, status, frequencies, left_child,
                 right_child, root_node, merges>>
  /\ UNCHANGED outVars

\* `if len(priority_queue) == 1:` pop the leaf, push its one-child parent
CheckSingle ==
  /\ pc = "check_single"
  /\ IF Len(priority_queue) = 1
       THEN LET p == heappop(nodes, priority_queue)
                ns == Append(nodes, WrapSingle(nodes, p[1]))
            IN /\ nodes' = ns
               /\ priority_queue' = heappush(ns, p[2], Len(ns))
       ELSE UNCHANGED <<nodes, priority_queue>>
  /\ pc' = "loop"
  /\ UNCHANGED <<entry, text, codes, ret, status, frequencies, item,
                 left_child, right_child, root_node, merges>>
  /\ UNCHANGED outVars

\* loop test passed; left_child = heappop(priority_queue)
PopLeft ==
  /\ pc = "loop" /\ LoopCond(priority_queue)
  /\ LET p == heappop(nodes, priority_queue)
     IN /\ left_child' = p[1]
        /\ priority_queue' = p[2]
  /\ pc' = "pop_right"
  /\ UNCHANGED <<entry, text, codes, ret, status, frequencies, nodes, item,
                 right_child, root_node, merges>>
  /\ UNCHANGED outVars

\* right_child = heappop(priority_queue); IndexError on an empty list
PopRight ==
  /\ pc = "pop_right"
  /\ IF priority_queue = <<>>
       THEN /\ status' = "IndexError" /\ pc' = "done"
            /\ UNCHANGED <<right_child, priority_queue>>
       ELSE LET p == heappop(nodes, priority_queue)
            IN /\ right_child' = p[1]
               /\ priority_queue' = p[2]
               /\ pc' = "push_parent"
               /\ UNCHANGED status
  /\ UNCHANGED <<entry, text, codes, ret, frequencies, nodes, item,
                 left_child, root_node, merges>>
  /\ UNCHANGED outVars

\* parent_node = Node(None, merged_freq, left_child, right_child); heappush
PushParent ==
  /\ pc = "push_parent"
  /\ LET merged_freq == MergedFreq(nodes, left_child, right_child)
         ns == Append(nodes, Node(NoChar, merged_freq, left_child, right_child))
     IN /\ nodes' = ns
        /\ priority_queue' = heappush(ns, priority_queue, Len(ns))
  /\ merges' = merges + 1
  /\ pc' = "loop"
  /\ UNCHANGED <<entry, text, codes, ret, status, frequencies, item,
                 left_child, right_child, root_node>>
  /\ UNCHANGED outVars

\* loop test failed; root_node = heappop(priority_queue); return
PopRoot ==
  /\ pc = "loop" /\ ~LoopCond(priority_queue)
  /\ IF priority_queue = <<>>
       THEN /\ status' = "IndexError" /\ pc' = "done"
            /\ UNCHANGED <<root_node, priority_queue>>
       ELSE LET p == heappop(nodes, priority_queue)
            IN /\ root_node' = p[1]
               /\ priority_queue' = p[2]
               /\ pc' = "gen"
               /\ UNCHANGED status
  /\ UNCHANGED <<entry, text, codes, ret, frequencies, nodes, item,
                 left_child, right_child, merges>>
  /\ UNCHANGED outVars

\* generate_huffman_codes after build_huffman_tree returned
GenCodes ==
  /\ pc = "gen"
  /\ IF root_node = NoNode
       THEN /\ ret' = <<EmptyDict, <<>>, NoNode>>
            /\ UNCHANGED codes
       ELSE LET cs == get_codes_recursive(nodes, root_node, <<>>, EmptyDict)
            IN /\ codes' = cs
               /\ ret' = <<cs, frequencies, root_node>>
  /\ pc' = IF entry = "huffman_utility" THEN "stats" ELSE "done"
  /\ UNCHANGED <<entry, text, status>>
  /\ UNCHANGED buildVars
  /\ UNCHANGED outVars

\* huffman_utility after generate_huffman_codes returned: the table, the
\* size comparison and the picture (visualize_tree returns a path, or None
\* when graphviz fails)
Stats ==
  /\ pc = "stats"
  /\ LET cs == ret[1]
         fs == ret[2]
         original_size_bits == Len(text) * BitsPerChar
         compressed_size_bits == CompressedSizeBits(fs, cs)
         savings == original_size_bits - compressed_size_bits
         savings_percent == IF original_size_bits > 0
                              THEN <<savings * 100, original_size_bits>>
                              ELSE <<0, 1>>
     IN /\ dataframe_data' = Rows(fs, cs)
        /\ original_size_out' = [kind |-> "bits", bits |-> original_size_bits,
                                 chars |-> Len(text)]
        /\ compressed_size_out' = [kind |-> "bits",
                                   bits |-> compressed_size_bits,
                                   savings |-> savings,
                                   savings_percent |-> savings_percent]
  /\ \E path \in {"huffman_tree.png", "None"} : tree_image_path' = path
  /\ pc' = "done"
  /\ UNCHANGED <<entry, text, codes, ret, status>>
  /\ UNCHANGED buildVars

Next ==
  \/ UtilityEmpty
  \/ CallBuild
  \/ BuildEmpty
  \/ BuildCount
  \/ PushLeaf
  \/ CheckSingle
  \/ PopLeft
  \/ PopRight
  \/ PushParent
  \/ PopRoot
  \/ GenCodes
  \/ Stats

Spec == Init /\ [][Next]_vars

\* the steps inside a call
Run ==
  \/ BuildEmpty
  \/ BuildCount
  \/ PushLeaf
  \/ CheckSingle
  \/ PopLeft
  \/ PopRight
  \/ PushParent
  \/ PopRoot
  \/ GenCodes
  \/ Stats

\* a call that was made runs to completion (synchronous, single-threaded);
\* nothing forces a call to be made
FairSpec == Spec /\ WF_vars(Run)

\* ------------------------------------------------------------ properties
Returned == Len(ret) = 3
RetCodes == ret[1]
RetFreqs == ret[2]
RetRoot == ret[3]

Distinct(t) == {t[k] : k \in 1..Len(t)}
NumDistinct == Cardinality(Distinct(text))

IsPrefix(x, y) == Len(x) <= Len(y) /\ SubSeq(y, 1, Len(x)) = x

IsInternal(ns, n) == ns[n].char = NoChar

\* the nodes of the tree rooted at n
RECURSIVE Subtree(_, _)
Subtree(ns, n) ==
  IF n = NoNode THEN {}
  ELSE {n} \cup Subtree(ns, ns[n].left) \cup Subtree(ns, ns[n].right)

\* C1: for an input with at least two distinct symbols, no code of the
\* returned code table is a prefix of the code of another symbol (so no two
\* symbols share a code).
C1_PrefixFree ==
  (Returned /\ NumDistinct >= 2) =>
    \A a \in DOMAIN RetCodes : \A b \in DOMAIN RetCodes :
      a # b => ~IsPrefix(RetCodes[a], RetCodes[b])

C1_Witness ==
  /\ pc = "done" /\ Returned
  /\ Cardinality(DOMAIN RetCodes) >= 3
  /\ \E a \in DOMAIN RetCodes : \E b \in DOMAIN RetCodes :
       Len(RetCodes[a]) < Len(RetCodes[b])

\* C2: for every input the keys of the returned code table are the keys of
\* the returned frequency table, which are the distinct symbols of the
\* input, and every code is a non-empty string over {"0","1"}.
C2_Coverage ==
  Returned =>
    /\ DOMAIN RetCodes = Keys(RetFreqs)
    /\ Keys(RetFreqs) = Distinct(text)
    /\ Len(RetFreqs) = NumDistinct
    /\ \A c \in DOMAIN RetCodes :
         /\ RetCodes[c] # <<>>
         /\ \A k \in 1..Len(RetCodes[c]) : RetCodes[c][k] \in {"0", "1"}

C2_Witness ==
  /\ pc = "done" /\ Returned
  /\ NumDistinct >= 2
  /\ DOMAIN RetCodes = Distinct(text)

\* C3: in the returned code table a symbol that is strictly more frequent
\* than another never has the longer code; for "AAAAABBBCC" the code lengths
\* are ordered A <= B <= C and the compressed size is below 80 bits.
C3_FrequentNotLonger ==
  /\ Returned =>
       \A a \in DOMAIN RetCodes : \A b \in DOMAIN RetCodes :
         Get(RetFreqs, a) > Get(RetFreqs, b) =>
           Len(RetCodes[a]) <= Len(RetCodes[b])
  /\ (Returned /\ text = Example3) =>
       /\ Len(RetCodes["A"]) <= Len(RetCodes["B"])
       /\ Len(RetCodes["B"]) <= Len(RetCodes["C"])
  /\ (pc = "done" /\ entry = "huffman_utility" /\ text = Example3) =>
       /\ compressed_size_out.kind = "bits"
       /\ compressed_size_out.bits < 80
       /\ original_size_out.bits = 80

C3_Witness ==
  /\ pc = "done" /\ entry = "huffman_utility" /\ text = Example3
  /\ Len(RetCodes["A"]) < Len(RetCodes["C"])
  /\ compressed_size_out.bits = 15

\* C4 as stated: for every non-empty input every internal node of the
\* returned tree has both a left and a right child.
C4_Original ==
  (pc \in {"gen", "stats", "done"} /\ root_node # NoNode) =>
    \A n \in Subtree(nodes, root_node) :
      IsInternal(nodes, n) =>
        nodes[n].left # NoNode /\ nodes[n].right # NoNode

\* C4 amended: for an input with at least two distinct symbols every internal
\* node of the returned tree has both children; for an input with exactly one
\* distinct symbol the returned root is an internal node whose left child is
\* the leaf and whose right child is absent.
C4_Amended ==
  (pc \in {"gen", "stats", "done"} /\ root_node # NoNode) =>
    /\ NumDistinct >= 2 =>
         \A n \in Subtree(nodes, root_node) :
           IsInternal(nodes, n) =>
             nodes[n].left # NoNode /\ nodes[n].right # NoNode
    /\ NumDistinct = 1 =>
         /\ IsInternal(nodes, root_node)
         /\ nodes[root_node].left # NoNode
         /\ ~IsInternal(nodes, nodes[root_node].left)
         /\ nodes[root_node].right = NoNode

C4_Witness ==
  /\ pc = "done" /\ root_node # NoNode /\ NumDistinct >= 3
  /\ Cardinality({n \in Subtree(nodes, root_node) : IsInternal(nodes, n)}) >= 2
  /\ \A n \in Subtree(nodes, root_node) :
       IsInternal(nodes, n) => nodes[n].right # NoNode

InQueue == {priority_queue[k] : k \in 1..Len(priority_queue)}

\* the node the last heappop of the merge loop returned, when at such a point
JustPopped ==
  IF pc = "pop_right" THEN left_child
  ELSE IF pc = "push_parent" THEN right_child
  ELSE NoNode

\* C5 as stated: among nodes of equal weight the one pushed earlier is popped
\* before the one pushed later (a node's index is its arrival number).
C5_Original ==
  JustPopped # NoNode =>
    \A y \in InQueue :
      nodes[y].freq = nodes[JustPopped].freq => JustPopped < y

\* C5 amended: every heappop of the merge loop returns a node of minimum
\* weight among the queued nodes, and the second node of an iteration is not
\* lighter than the first; among nodes of equal weight the order of popping
\* follows the heap positions, not the order of arrival.
C5_Amended ==
  /\ JustPopped # NoNode =>
       \A y \in InQueue : nodes[JustPopped].freq <= nodes[y].freq
  /\ pc = "push_parent" => nodes[left_child].freq <= nodes[right_child].freq

\* a node is popped while an equal-weight node that arrived earlier waits
C5_Witness ==
  /\ JustPopped # NoNode
  /\ \E y \in InQueue :
       nodes[y].freq = nodes[JustPopped].freq /\ y < JustPopped

\* C6: for an input of n >= 1 occurrences of one symbol s the frequency table
\* is {s: n}, the code table is {s: "0"} and the compressed size is n bits.
C6_SingleSymbol ==
  (NumDistinct = 1) =>
    /\ Returned =>
         /\ RetFreqs = <<<<text[1], Len(text)>>>>
         /\ DOMAIN RetCodes = {text[1]}
         /\ RetCodes[text[1]] = <<"0">>
    /\ (pc = "done" /\ entry = "huffman_utility") =>
         /\ Returned
         /\ compressed_size_out.kind = "bits"
         /\ compressed_size_out.bits = Len(text)

C6_Witness ==
  /\ pc = "done" /\ entry = "huffman_utility"
  /\ NumDistinct = 1 /\ Len(text) >= 3
  /\ RetCodes[text[1]] = <<"0">>
  /\ compressed_size_out.bits = Len(text)

\* the input re-encoded symbol by symbol with the code table cs
RECURSIVE EncodeFrom(_, _, _, _)
EncodeFrom(t, cs, k, acc) ==
  IF k > Len(t) THEN acc ELSE EncodeFrom(t, cs, k + 1, acc \o cs[t[k]])

Encode(t, cs) == EncodeFrom(t, cs, 1, <<>>)

\* C7: the input re-encoded symbol by symbol with the returned code table has
\* as many bits as the sum over the frequency table of frequency times code
\* length, which is the compressed size huffman_utility reports.
C7_RoundTripLength ==
  /\ Returned =>
       Len(Encode(text, RetCodes)) = CompressedSizeBits(RetFreqs, RetCodes)
  /\ (pc = "done" /\ compressed_size_out.kind = "bits") =>
       compressed_size_out.bits = Len(Encode(text, RetCodes))

C7_Witness ==
  /\ pc = "done" /\ entry = "huffman_utility"
  /\ NumDistinct >= 3
  /\ \E j \in 1..Len(RetFreqs) : RetFreqs[j][2] >= 2
  /\ compressed_size_out.bits = Len(Encode(text, RetCodes))
  /\ compressed_size_out.bits > Len(text)

\* C8 as stated: for the empty input there is no error, the frequency table
\* and the code table are empty, the tree is absent, and the statistics
\* reported are originalBits = 0 and savingsPercent = 0.
C8_Original ==
  (pc = "done" /\ text = <<>>) =>
    /\ status = "ok"
    /\ entry = "generate_huffman_codes" =>
         /\ Returned
         /\ DOMAIN RetCodes = {} /\ RetFreqs = <<>> /\ RetRoot = NoNode
    /\ entry = "huffman_utility" =>
         /\ original_size_out.kind = "bits"
         /\ original_size_out.bits = 0
         /\ compressed_size_out.kind = "bits"
         /\ compressed_size_out.savings_percent[1] = 0

\* C8 amended: for the empty input there is no error; generate_huffman_codes
\* returns an empty code table, an empty frequency table and an absent tree;
\* huffman_utility computes no statistics and reports the placeholder "N/A"
\* for both sizes, with no table and no tree image.
C8_Amended ==
  (pc = "done" /\ text = <<>>) =>
    /\ status = "ok"
    /\ nodes = <<>>
    /\ entry = "generate_huffman_codes" =>
         /\ Returned
         /\ DOMAIN RetCodes = {} /\ RetFreqs = <<>> /\ RetRoot = NoNode
    /\ entry = "huffman_utility" =>
         /\ original_size_out = NA
         /\ compressed_size_out = NA
         /\ dataframe_data = <<>>
         /\ tree_image_path = "None"
         /\ ~Returned

C8_Witness ==
  /\ pc = "done" /\ text = <<>> /\ entry = "huffman_utility"
  /\ original_size_out = NA

RECURSIVE SumFreq(_, _, _)
SumFreq(ns, h, k) ==
  IF k > Len(h) THEN 0 ELSE ns[h[k]].freq + SumFreq(ns, h, k + 1)

Weight(ns, n) == IF n = NoNode THEN 0 ELSE ns[n].freq

\* C9: every internal node constructed so far weighs the sum of its children;
\* at each test of the merge loop the weights of the queued nodes add up to
\* the length of the input; the returned root weighs the length of the input.
C9_Weights ==
  /\ \A n \in 1..Len(nodes) :
       IsInternal(nodes, n) =>
         nodes[n].freq = Weight(nodes, nodes[n].left) + Weight(nodes, nodes[n].right)
  /\ pc = "loop" => SumFreq(nodes, priority_queue, 1) = Len(text)
  /\ (pc \in {"gen", "stats", "done"} /\ root_node # NoNode) =>
       nodes[root_node].freq = Len(text)

C9_Witness ==
  /\ pc = "loop" /\ merges >= 1 /\ Len(priority_queue) >= 2
  /\ \E n \in InQueue :
       IsInternal(nodes, n) /\ nodes[n].freq >= 3
         /\ nodes[nodes[n].left].freq # nodes[nodes[n].right].freq

\* C10, the steps: the queue holds k - merges nodes at each loop test (k the
\* number of distinct symbols), one less after the first pop and two less
\* after the second, no pop finds the queue empty, and the call that left the
\* loop did k - 1 merges (none when k = 1), found exactly one node and
\* returned it as the root.
C10_Steps ==
  /\ status = "ok"
  /\ pc = "loop" =>
       Len(priority_queue) = NumDistinct - merges /\ Len(priority_queue) >= 1
  /\ pc = "pop_right" =>
       Len(priority_queue) = NumDistinct - merges - 1 /\ Len(priority_queue) >= 1
  /\ pc = "push_parent" => Len(priority_queue) = NumDistinct - merges - 2
  /\ (pc \in {"gen", "stats", "done"} /\ text # <<>>) =>
       /\ merges = (IF NumDistinct >= 2 THEN NumDistinct - 1 ELSE 0)
       /\ priority_queue = <<>>
       /\ root_node = Len(nodes)
       /\ Subtree(nodes, root_node) = 1..Len(nodes)

\* C10: for every non-empty input the merge loop terminates, with the steps
\* and the exit described above.
C10_Terminates ==
  /\ []C10_Steps
  /\ (pc = "build" /\ text # <<>>) ~> (pc = "done" /\ root_node # NoNode)

C10_Witness ==
  /\ pc = "done" /\ status = "ok"
  /\ NumDistinct >= 3 /\ merges = NumDistinct - 1
  /\ root_node = Len(nodes)

====
